---- MODULE Spec2Model ----
(***************************************************************************)
(* MasterPDF (PDF-to-JPG): the React component App with its file store,    *)
(* processing status, progress and error message, the two orchestration    *)
(* handlers handleMergeToPdf / handlePdfToJpg and the services of          *)
(* services/pdfTools.ts.  Two revisions of App live in the repository:     *)
(* src/App.tsx ("App") and src/unnamed/part_001 ("part_001"); the variable *)
(* variant says which one a behaviour runs.                                *)
(*                                                                         *)
(* React state is modelled as the pending value of each useState cell;     *)
(* view is the render-time snapshot of files and status that the handlers' *)
(* closures and the buttons' disabled/visible conditions read.             *)
(***************************************************************************)
EXTENDS Integers, Sequences, FiniteSets, TLC

VARIABLES variant, files, status, progress, error, view, ops, started,
          nextId, revoked, delivered, reports, last

vars == <<variant, files, status, progress, error, view, ops, started,
          nextId, revoked, delivered, reports, last>>

(* ------------------------------ bounds -------------------------------- *)
\* entries ever created by handleFileChange (bounds ids and preview handles)
MaxIngest == 2
\* files in one FileList handed to handleFileChange
MaxPick == MaxIngest
\* orchestration operations ever started
MaxStarts == 2
\* revokeObjectURL calls counted per handle
MaxRevoke == 2

(* ------------------------- types.ts (part_000) ------------------------ *)
PDF == "application/pdf"
JPG == "image/jpeg"
PNG == "image/png"
KindImage == "IMAGE"
KindUnknown == "UNKNOWN"

Idle == "idle"
Processing == "processing"
Completed == "completed"
Error == "error"
ProcessingStatus == {Idle, Processing, Completed, Error}

Variants == {"App", "part_001"}

(* ------------------------------ strings ------------------------------- *)
\* A string is the sequence of its characters.
DotPdf == <<".", "p", "d", "f">>
DotJpg == <<".", "j", "p", "g">>
ImagesZip == <<"_", "i", "m", "a", "g", "e", "s", ".", "z", "i", "p">>
MergedName == <<"m", "e", "r", "g", "e", "d", "_", "d", "o", "c", "u", "m",
                "e", "n", "t", ".", "p", "d", "f">>
TempName == <<"t", "e", "m", "p", ".", "p", "d", "f">>

OccursAt(s, sub, i) ==
  /\ i + Len(sub) - 1 <= Len(s)
  /\ SubSeq(s, i, i + Len(sub) - 1) = sub

\* String.prototype.indexOf, 1-based; 0 when sub does not occur
IndexOf(s, sub) ==
  IF \E i \in 1..Len(s) : OccursAt(s, sub, i)
  THEN CHOOSE i \in 1..Len(s) :
         OccursAt(s, sub, i) /\ \A j \in 1..(i - 1) : ~OccursAt(s, sub, j)
  ELSE 0

\* String.prototype.replace with a string pattern: the FIRST occurrence only
StrReplace(s, sub, rep) ==
  LET i == IndexOf(s, sub) IN
  IF i = 0 THEN s
  ELSE SubSeq(s, 1, i - 1) \o rep \o SubSeq(s, i + Len(sub), Len(s))

(* --------------------- the files the user can pick -------------------- *)
\* A File: its name, a short label for its content, its declared media
\* type, its pages (a PDF's page tree; empty for an image) and whether
\* its bytes decode (a damaged or encrypted file does not).
Page(from, n) == [from |-> from, n |-> n]
PdfPages(label, np) == [k \in 1..np |-> Page(label, k)]

DiskFile(name, label, type, np, good) ==
  [name |-> name, label |-> label, type |-> type,
   pages |-> PdfPages(label, np), good |-> good]

Catalog ==
  { DiskFile(<<"a", ".", "p", "d", "f">>, "a.pdf", PDF, 1, TRUE),
    DiskFile(<<"B", ".", "P", "D", "F">>, "B.PDF", PDF, 2, TRUE),
    DiskFile(<<"c", ".", "p", "d", "f", "x", ".", "p", "d", "f">>,
             "c.pdfx.pdf", PDF, 3, TRUE),
    DiskFile(<<"e", ".", "p", "d", "f">>, "e.pdf", PDF, 0, TRUE),
    DiskFile(<<"z", ".", "p", "d", "f">>, "z.pdf", PDF, 1, FALSE),
    DiskFile(<<"g", ".", "p", "n", "g">>, "g.png", PNG, 0, TRUE),
    DiskFile(<<"h", ".", "j", "p", "g">>, "h.jpg", JPG, 0, FALSE) }

\* the FileLists an <input type=file multiple> can hand over
FileLists == UNION { [1..n -> Catalog] : n \in 1..MaxPick }

(* ------------------------ services/pdfTools.ts ------------------------ *)
RECURSIVE Flatten(_)
Flatten(ss) == IF ss = <<>> THEN <<>> ELSE Head(ss) \o Flatten(Tail(ss))

\* the result of an awaited library call: resolved with pages, or rejected
Resolved(pages) == [ok |-> TRUE, pages |-> pages]
Rejected == [ok |-> FALSE, pages |-> <<>>]

\* pdfDoc.embedJpg / embedPng decode the bytes as that format
EmbedJpg(f) == f.good /\ f.type \in {JPG, "image/jpg"}
EmbedPng(f) == f.good /\ f.type = PNG
\* PDFDocument.load parses the bytes as a PDF
LoadPdf(f) == f.good /\ f.type = PDF

\* one page per image, in order; the first embed that fails rejects
imagesToPdf(images) ==
  IF \A i \in 1..Len(images) :
       IF images[i].type = JPG \/ images[i].type = "image/jpg"
       THEN EmbedJpg(images[i]) ELSE EmbedPng(images[i])
  THEN Resolved([i \in 1..Len(images) |-> Page(images[i].label, 0)])
  ELSE Rejected

\* every page of every file, files in order, pages in their own order
mergePdfs(pdfFiles) ==
  IF \A i \in 1..Len(pdfFiles) : LoadPdf(pdfFiles[i])
  THEN Resolved(Flatten([i \in 1..Len(pdfFiles) |-> pdfFiles[i].pages]))
  ELSE Rejected

\* faulty variant: the percentage is truncated, not rounded
ProgressFloor(i, numPages) == (100 * i) \div numPages

\* Math.round((i / numPages) * 100), numPages > 0
ProgressOf(i, numPages) == (200 * i + numPages) \div (2 * numPages)

\* faulty variant: the page number is the 0-based index
PageResultZeroBased(f, i) == [dataUrl |-> f.pages[i], page |-> i - 1]

\* one Page Result of pdfToImages: the JPEG of page i and its number
PageResult(f, i) == [dataUrl |-> f.pages[i], page |-> i]

\* folder.file(`page_${img.page}.jpg`, ...) inside zip.folder(baseName)
ZipEntry(baseName, img) ==
  [folder |-> baseName, page |-> img.page, data |-> img.dataUrl]

createZipFromImages(images, baseName) ==
  [i \in 1..Len(images) |-> ZipEntry(baseName, images[i])]

\* the archive generateAsync produces
Zip == "application/zip"

\* what downloadBlob hands to the browser
Download(op, kind, filename, payload) ==
  [op |-> op, kind |-> kind, filename |-> filename, payload |-> payload]

(* ------------------------------- App ---------------------------------- *)
NoError == "null"
NoPdfError == "Please upload at least one PDF file to convert."
MergeError == "An error occurred during PDF merging. Please try again."
NoPagesError == "Conversion failed: No pages found in PDF."
NoContextError == "Conversion failed: Could not create canvas context"
LibraryError == "Conversion failed: <message of the library's rejection>"

IsImageMedia(t) == t \in {JPG, PNG, "image/jpg"}

\* handleFileChange's type: a cast in App.tsx, a classification in part_001
Classify(v, mediaType) ==
  IF v = "App" THEN mediaType
  ELSE IF mediaType = PDF THEN PDF
  ELSE IF IsImageMedia(mediaType) THEN KindImage
  ELSE KindUnknown

ManagedFile(v, n, file) ==
  [id |-> n, file |-> file, name |-> file.name,
   type |-> Classify(v, file.type), previewUrl |-> n]

Ids(fs) == {fs[i].id : i \in 1..Len(fs)}
IsPdf(f) == f.type = PDF
NotPdf(f) == f.type # PDF
FileOf(fs) == [i \in 1..Len(fs) |-> fs[i].file]

isAllImages(fs) == Len(fs) > 0 /\ \A i \in 1..Len(fs) : fs[i].type # PDF
hasPdf(fs) == \E i \in 1..Len(fs) : fs[i].type = PDF

\* Array.prototype.find: the first match
FirstPdf(fs) == fs[CHOOSE i \in 1..Len(fs) :
                     IsPdf(fs[i]) /\ \A j \in 1..(i - 1) : ~IsPdf(fs[j])]

Snapshot(fs, st) == [files |-> fs, status |-> st]
Did(act, op, id) == [act |-> act, op |-> op, id |-> id]

\* sync: React commits the handler's updates before the next event
Rerender(sync) ==
  view' = IF sync THEN Snapshot(files', status') ELSE view

(* --------------------------- the file store --------------------------- *)
Count(us, u) == Cardinality({i \in 1..Len(us) : us[i] = u})
UrlsOf(fs) == [i \in 1..Len(fs) |-> fs[i].previewUrl]

\* URL.revokeObjectURL on each handle of us, counted per handle
Revoke(r, us) == [u \in DOMAIN r |-> r[u] + Count(us, u)]

\* faulty variant: the entry found is the first of the list
FindFirst(prev, id) == prev[1]

\* Array.prototype.find(f => f.id === id), inside removeFile's updater
FindById(prev, id) ==
  prev[CHOOSE i \in 1..Len(prev) :
         prev[i].id = id /\ \A j \in 1..(i - 1) : prev[j].id # id]

\* Array.prototype.filter(f => f.id !== id)
FilterOut(prev, id) ==
  LET Keep(f) == f.id # id IN SelectSeq(prev, Keep)

\* files.forEach(f => URL.revokeObjectURL(f.previewUrl)) of clearAll
ClearRevokes(v) == UrlsOf(v.files)

handleFileChange(fl) ==
  /\ nextId + Len(fl) - 1 <= MaxIngest
  /\ files' = files \o
        [i \in 1..Len(fl) |-> ManagedFile(variant, nextId + i - 1, fl[i])]
  /\ nextId' = nextId + Len(fl)
  /\ last' = Did("handleFileChange", 0, 0)
  /\ UNCHANGED <<variant, status, progress, error, ops, started, revoked,
                 delivered, reports>>

\* faulty variant: removing an entry also resets Status
removeFileResetsStatus(id) ==
  /\ revoked[id] < MaxRevoke
  /\ files' = FilterOut(files, id)
  /\ revoked' = IF id \in Ids(files)
                THEN Revoke(revoked, <<FindById(files, id).previewUrl>>)
                ELSE revoked
  /\ status' = Idle
  /\ last' = Did("removeFile", 0, id)
  /\ UNCHANGED <<variant, progress, error, ops, started, nextId, delivered,
                 reports>>

removeFile(id) ==
  /\ revoked[id] < MaxRevoke
  /\ files' = FilterOut(files, id)
  /\ revoked' = IF id \in Ids(files)
                THEN Revoke(revoked, <<FindById(files, id).previewUrl>>)
                ELSE revoked
  /\ last' = Did("removeFile", 0, id)
  /\ UNCHANGED <<variant, status, progress, error, ops, started, nextId,
                 delivered, reports>>

clearAll(v) ==
  /\ revoked' = Revoke(revoked, ClearRevokes(v))
  /\ \A u \in DOMAIN revoked : revoked'[u] <= MaxRevoke
  /\ files' = <<>>
  /\ error' = NoError
  /\ status' = Idle
  /\ last' = Did("clearAll", 0, 0)
  /\ UNCHANGED <<variant, progress, ops, started, nextId, delivered,
                 reports>>

\* the banner's "Start another task": () => setStatus('idle')
dismiss ==
  /\ status' = Idle
  /\ last' = Did("dismiss", 0, 0)
  /\ UNCHANGED <<variant, files, progress, error, ops, started, nextId,
                 revoked, delivered, reports>>

(* ----------------------- orchestration operations --------------------- *)
MergeStartProgress == 10

Op(kind, snap, pc) == [kind |-> kind, snap |-> snap, pc |-> pc, results |-> <<>>]
NoOps == [o \in {} |-> 0]
Without(f, o) == [p \in DOMAIN f \ {o} |-> f[p]]

\* new File([tempImagePdfBytes], 'temp.pdf', { type: 'application/pdf' })
TempFile(pages) ==
  [name |-> TempName, label |-> "temp.pdf", type |-> PDF, pages |-> pages,
   good |-> TRUE]

\* faulty variant: the images' PDF is merged before the PDFs
MixedTempFirst(pdfFiles, imageFiles) ==
  LET temp == imagesToPdf(imageFiles) IN
  IF temp.ok THEN mergePdfs(<<TempFile(temp.pages)>> \o pdfFiles) ELSE Rejected

\* the mixed branch: the images' PDF is merged after the PDFs
MergeMixed(pdfFiles, imageFiles) ==
  LET temp == imagesToPdf(imageFiles) IN
  IF temp.ok THEN mergePdfs(pdfFiles \o <<TempFile(temp.pages)>>) ELSE Rejected

\* the try block of handleMergeToPdf up to finalPdfBytes
MergeBytes(fs) ==
  LET imageFiles == FileOf(SelectSeq(fs, NotPdf))
      pdfFiles == FileOf(SelectSeq(fs, IsPdf))
  IN IF Len(pdfFiles) > 0 /\ Len(imageFiles) = 0 THEN mergePdfs(pdfFiles)
     ELSE IF Len(imageFiles) > 0 /\ Len(pdfFiles) = 0 THEN imagesToPdf(imageFiles)
     ELSE MergeMixed(pdfFiles, imageFiles)

\* pdfFile.name.replace('.pdf', '')
cleanName(name) == StrReplace(name, DotPdf, <<>>)

\* the status an operation leaves: part_001's finally resets it to idle
FinalStatus(v, outcome) == IF v = "part_001" THEN Idle ELSE outcome

\* faulty variant: no finally block, Progress is not reset
SettleWithoutFinally(o, outcome, msg, downloads) ==
  /\ ops' = Without(ops, o)
  /\ delivered' = delivered \o downloads
  /\ status' = outcome
  /\ error' = IF outcome = Error THEN msg ELSE error
  /\ progress' = progress
  /\ last' = Did(outcome, o, 0)
  /\ UNCHANGED <<variant, files, started, nextId, revoked>>

\* the end of the try, the catch and the finally of either handler
Settle(o, outcome, msg, downloads) ==
  /\ ops' = Without(ops, o)
  /\ delivered' = delivered \o downloads
  /\ status' = FinalStatus(variant, outcome)
  /\ error' = IF outcome = Error THEN msg ELSE error
  /\ progress' = 0
  /\ last' = Did(outcome, o, 0)
  /\ UNCHANGED <<variant, files, started, nextId, revoked>>

\* handleMergeToPdf with an empty closure file list: return
MergeNothing ==
  /\ last' = Did("handleMergeToPdf:empty", 0, 0)
  /\ UNCHANGED <<variant, files, status, progress, error, ops, started,
                 nextId, revoked, delivered, reports>>

StartOp(op, prog, act) ==
  /\ started < MaxStarts
  /\ started' = started + 1
  /\ ops' = ((started + 1) :> op) @@ ops
  /\ status' = Processing
  /\ progress' = prog
  /\ error' = NoError
  /\ last' = Did(act, started + 1, 0)
  /\ UNCHANGED <<variant, files, nextId, revoked, delivered, reports>>

handleMergeToPdf(v) ==
  IF Len(v.files) = 0 THEN MergeNothing
  ELSE StartOp(Op("merge", v.files, "await"), MergeStartProgress, "merge:start")

\* faulty variant: the merge reads the store when it resumes, not the file
\* list of the closure that started it
MergeSettleReadsStore(o) ==
  /\ ops[o].kind = "merge"
  /\ LET r == MergeBytes(files) IN
     IF r.ok
     THEN Settle(o, Completed, NoError, <<Download(o, PDF, MergedName, r.pages)>>)
     ELSE Settle(o, Error, MergeError, <<>>)
  /\ UNCHANGED reports

\* the awaits of mergePdfs / imagesToPdf resolve or reject, then downloadBlob
MergeSettle(o) ==
  /\ ops[o].kind = "merge"
  /\ LET r == MergeBytes(ops[o].snap) IN
     IF r.ok
     THEN Settle(o, Completed, NoError, <<Download(o, PDF, MergedName, r.pages)>>)
     ELSE Settle(o, Error, MergeError, <<>>)
  /\ UNCHANGED reports

\* faulty variant: setStatus('processing') moved above the check for a PDF
RejectNoPdfAfterProcessing ==
  /\ error' = NoPdfError
  /\ status' = Processing
  /\ last' = Did("handlePdfToJpg:noPdf", 0, 0)
  /\ UNCHANGED <<variant, files, progress, ops, started, nextId, revoked,
                 delivered, reports>>

\* handlePdfToJpg without a PDF in the closure file list
RejectNoPdf ==
  /\ error' = NoPdfError
  /\ last' = Did("handlePdfToJpg:noPdf", 0, 0)
  /\ UNCHANGED <<variant, files, status, progress, ops, started, nextId,
                 revoked, delivered, reports>>

handlePdfToJpg(v) ==
  IF ~hasPdf(v.files) THEN RejectNoPdf
  ELSE StartOp(Op("toJpg", <<FirstPdf(v.files)>>, "load"), progress, "toJpg:start")

\* faulty variant: no check for an empty result, the pages go to the archive
AfterPagesUnchecked(o, results, prog) ==
  LET name == cleanName(ops[o].snap[1].name) IN
  IF Len(results) = 1
  THEN Settle(o, Completed, NoError,
              <<Download(o, JPG, name \o DotJpg, <<results[1].dataUrl>>)>>)
  ELSE /\ ops' = [ops EXCEPT ![o].pc = "zip", ![o].results = results]
       /\ progress' = prog
       /\ last' = Did("toJpg:page", o, Len(results))
       /\ UNCHANGED <<variant, files, status, error, started, nextId, revoked,
                      delivered>>

\* the rest of handlePdfToJpg's try once pdfToImages has resolved
AfterPages(o, results, prog) ==
  LET name == cleanName(ops[o].snap[1].name) IN
  IF Len(results) = 0 THEN Settle(o, Error, NoPagesError, <<>>)
  ELSE IF Len(results) = 1
  THEN Settle(o, Completed, NoError,
              <<Download(o, JPG, name \o DotJpg, <<results[1].dataUrl>>)>>)
  ELSE /\ ops' = [ops EXCEPT ![o].pc = "zip", ![o].results = results]
       /\ progress' = prog
       /\ last' = Did("toJpg:page", o, Len(results))
       /\ UNCHANGED <<variant, files, status, error, started, nextId, revoked,
                      delivered>>

\* pdfToImages: arrayBuffer and getDocument
LoadDocument(o) ==
  /\ ops[o].kind = "toJpg" /\ ops[o].pc = "load"
  /\ LET f == ops[o].snap[1].file IN
     IF ~LoadPdf(f) THEN Settle(o, Error, LibraryError, <<>>)
     ELSE IF Len(f.pages) = 0 THEN AfterPages(o, <<>>, progress)
     ELSE /\ ops' = [ops EXCEPT ![o].pc = "page"]
          /\ last' = Did("toJpg:loaded", o, 0)
          /\ UNCHANGED <<variant, files, status, progress, error, started,
                         nextId, revoked, delivered>>
  /\ UNCHANGED reports

\* a call of the progress callback after page i of numPages, with its value
Report(i, numPages) ==
  [page |-> i, of |-> numPages, value |-> ProgressOf(i, numPages)]

\* if (onProgress) onProgress(...): the call, kept per operation
onProgress(o, i, numPages) ==
  reports' = [reports EXCEPT ![o] = Append(@, Report(i, numPages))]

PageOutcomes == {"ok", "no context", "rejected"}

\* pdfToImages: one turn of the page loop
RenderPage(o) ==
  /\ ops[o].kind = "toJpg" /\ ops[o].pc = "page"
  /\ LET f == ops[o].snap[1].file
         n == Len(f.pages)
         i == Len(ops[o].results) + 1
         rs == Append(ops[o].results, PageResult(f, i))
     IN \E out \in PageOutcomes :
          IF out = "no context"
          THEN Settle(o, Error, NoContextError, <<>>) /\ UNCHANGED reports
          ELSE IF out = "rejected"
          THEN Settle(o, Error, LibraryError, <<>>) /\ UNCHANGED reports
          ELSE /\ onProgress(o, i, n)
               /\ IF i < n
                  THEN /\ ops' = [ops EXCEPT ![o].results = rs]
                       /\ progress' = ProgressOf(i, n)
                       /\ last' = Did("toJpg:page", o, i)
                       /\ UNCHANGED <<variant, files, status, error, started,
                                      nextId, revoked, delivered>>
                  ELSE AfterPages(o, rs, ProgressOf(i, n))

\* createZipFromImages: generateAsync resolves or rejects, then downloadBlob
ZipPages(o) ==
  /\ ops[o].kind = "toJpg" /\ ops[o].pc = "zip"
  /\ LET name == cleanName(ops[o].snap[1].name) IN
     \E ok \in BOOLEAN :
       IF ok
       THEN Settle(o, Completed, NoError,
                   <<Download(o, Zip, name \o ImagesZip,
                              createZipFromImages(ops[o].results, name))>>)
       ELSE Settle(o, Error, LibraryError, <<>>)
  /\ UNCHANGED reports

(* ------------------- what the rendered UI lets through ---------------- *)
CanPick(v) == variant = "App" \/ v.status # Processing
CanRemove(v, id) == id \in Ids(v.files)
CanClear(v) == Len(v.files) > 0 /\ (variant = "part_001" => v.status # Processing)
CanMerge(v) == Len(v.files) > 0 /\ v.status # Processing
\* faulty variant: the button is enabled whether or not there is a PDF
CanPdfToJpgAnyFile(v) == Len(v.files) > 0 /\ v.status # Processing
CanPdfToJpg(v) == Len(v.files) > 0 /\ hasPdf(v.files) /\ v.status # Processing
CanDismiss(v) == v.status = Completed

(* ------------------------------ actions ------------------------------- *)
\* ui: the event comes through the rendered UI; sync: React re-renders
\* before the next event.
Ingest(ui, sync) ==
  \E fl \in FileLists :
    (ui => CanPick(view)) /\ handleFileChange(fl) /\ Rerender(sync)

Remove(ui, sync) ==
  \E id \in 1..MaxIngest :
    /\ IF ui THEN CanRemove(view, id) ELSE id < nextId
    /\ removeFile(id) /\ Rerender(sync)

Clear(ui, sync) == (ui => CanClear(view)) /\ clearAll(view) /\ Rerender(sync)

Merge(ui, sync) ==
  (ui => CanMerge(view)) /\ handleMergeToPdf(view) /\ Rerender(sync)

PdfToJpg(ui, sync) ==
  (ui => CanPdfToJpg(view)) /\ handlePdfToJpg(view) /\ Rerender(sync)

Dismiss(ui, sync) ==
  variant = "App" /\ (ui => CanDismiss(view)) /\ dismiss /\ Rerender(sync)

\* a continuation of an operation in flight
Continue(sync) ==
  \E o \in DOMAIN ops :
    /\ MergeSettle(o) \/ LoadDocument(o) \/ RenderPage(o) \/ ZipPages(o)
    /\ Rerender(sync)

\* React commits the pending state
Render ==
  /\ view # Snapshot(files, status)
  /\ view' = Snapshot(files, status)
  /\ UNCHANGED <<variant, files, status, progress, error, ops, started,
                 nextId, revoked, delivered, reports, last>>

Init ==
  /\ variant \in Variants
  /\ files = <<>>
  /\ status = Idle
  /\ progress = 0
  /\ error = NoError
  /\ view = Snapshot(<<>>, Idle)
  /\ ops = NoOps
  /\ started = 0
  /\ nextId = 1
  /\ revoked = [u \in 1..MaxIngest |-> 0]
  /\ delivered = <<>>
  /\ reports = [o \in 1..MaxStarts |-> <<>>]
  /\ last = Did("init", 0, 0)

\* the application driven through its UI, each event rendered before the next
Next ==
  \/ Ingest(TRUE, TRUE)
  \/ Remove(TRUE, TRUE)
  \/ Clear(TRUE, TRUE)
  \/ Merge(TRUE, TRUE)
  \/ PdfToJpg(TRUE, TRUE)
  \/ Dismiss(TRUE, TRUE)
  \/ Continue(TRUE)

Spec == Init /\ [][Next]_vars

\* the UI with several file-store events handled before React re-renders
\* (an operation's start and its continuations are rendered at once)
NextBatched ==
  \/ Ingest(TRUE, FALSE)
  \/ Remove(TRUE, FALSE)
  \/ Clear(TRUE, FALSE)
  \/ Merge(TRUE, TRUE)
  \/ PdfToJpg(TRUE, TRUE)
  \/ Dismiss(TRUE, TRUE)
  \/ Continue(TRUE)
  \/ Render

\* src/App.tsx alone
InitApp == Init /\ variant = "App"

SpecApp == InitApp /\ [][Next]_vars

\* src/App.tsx where every awaited library call resolves or rejects in the
\* end: a continuation that stays enabled is eventually taken
SpecAppFair == InitApp /\ [][Next]_vars /\ WF_vars(Continue(TRUE))

\* both revisions under the same assumption
SpecFair == Init /\ [][Next]_vars /\ WF_vars(Continue(TRUE))

SpecBatched == Init /\ [][NextBatched]_vars

\* the handlers called directly, in any state
NextHandlers ==
  \/ Ingest(FALSE, TRUE)
  \/ Remove(FALSE, TRUE)
  \/ Clear(FALSE, TRUE)
  \/ Merge(FALSE, TRUE)
  \/ PdfToJpg(FALSE, TRUE)
  \/ Dismiss(FALSE, TRUE)
  \/ Continue(TRUE)

SpecHandlers == Init /\ [][NextHandlers]_vars

(* ------------------------------ claims -------------------------------- *)
Leaves(o) == o \in DOMAIN ops /\ o \notin DOMAIN ops'
Steps(o) == o \in DOMAIN ops /\ (o \notin DOMAIN ops' \/ ops'[o] # ops[o])
Delivers(d) == delivered' = Append(delivered, d)
SettledStatus(outcome) == IF variant = "App" THEN outcome ELSE Idle

\* C1: handlePdfToJpg called with no PDF-kind entry in the working set
\* reports the validation error and returns: Status (so never
\* 'processing' by this call), Progress and the file set are unchanged, no
\* operation is started and nothing is delivered.
C1_NoPdfFailsFast ==
  [][(handlePdfToJpg(view) /\ ~hasPdf(view.files)) =>
       /\ error' = NoPdfError
       /\ status' = status
       /\ progress' = progress
       /\ files' = files
       /\ ops' = ops /\ started' = started
       /\ delivered' = delivered]_vars

C1_Witness ==
  /\ last.act = "handlePdfToJpg:noPdf"
  /\ files # <<>> /\ ~hasPdf(files)
  /\ error = NoPdfError /\ status = Idle

\* the page sequence the merged document is to have: the pages of each
\* PDF-kind entry in order, then one page per other entry in order
RECURSIVE PdfPagesOf(_)
PdfPagesOf(fs) ==
  IF fs = <<>> THEN <<>>
  ELSE (IF Head(fs).type = PDF THEN Head(fs).file.pages ELSE <<>>)
       \o PdfPagesOf(Tail(fs))

RECURSIVE ImagePagesOf(_)
ImagePagesOf(fs) ==
  IF fs = <<>> THEN <<>>
  ELSE (IF Head(fs).type = PDF THEN <<>> ELSE <<Page(Head(fs).file.label, 0)>>)
       \o ImagePagesOf(Tail(fs))

RECURSIVE PageCount(_)
PageCount(fs) ==
  IF fs = <<>> THEN 0
  ELSE (IF Head(fs).type = PDF THEN Len(Head(fs).file.pages) ELSE 1)
       + PageCount(Tail(fs))

AllDecode(fs) == \A i \in 1..Len(fs) : fs[i].file.good

\* C2: a Merge-to-PDF of a non-empty working set whose files all decode
\* delivers exactly one document, merged_document.pdf, whose pages are all
\* pages of each PDF-kind entry in working-set order followed by one page per
\* non-PDF entry in working-set order; its page count is the sum of the PDFs'
\* page counts plus the number of images.
C2_MergedPageOrder ==
  [][\A o \in DOMAIN ops :
       (ops[o].kind = "merge" /\ Steps(o) /\ AllDecode(ops[o].snap)) =>
         /\ ops[o].snap # <<>>
         /\ Leaves(o)
         /\ Delivers(Download(o, PDF, MergedName,
                              PdfPagesOf(ops[o].snap) \o ImagePagesOf(ops[o].snap)))
         /\ Len(delivered'[Len(delivered')].payload) = PageCount(ops[o].snap)]_vars

C2_Witness ==
  /\ last.act = Completed
  /\ Len(files) = 2 /\ files[1].type # PDF /\ files[2].type = PDF
  /\ delivered # <<>>
  /\ LET d == delivered[Len(delivered)] IN
       /\ d.kind = PDF /\ d.op = last.op
       /\ d.payload = <<Page("B.PDF", 1), Page("B.PDF", 2), Page("g.png", 0)>>

\* C3: a PDF-to-Image that completes makes exactly one delivery: for a PDF
\* of one page a .jpg file; for a PDF of N > 1 pages a .zip archive of
\* exactly N entries page_1.jpg ... page_N.jpg, in page order, each the
\* image of that page, under a folder named after the base name.
C3_JpgOrZip ==
  [][\A o \in DOMAIN ops :
       (ops[o].kind = "toJpg" /\ Leaves(o) /\ last'.act = Completed) =>
         LET f == ops[o].snap[1].file
             N == Len(f.pages)
         IN /\ Len(delivered') = Len(delivered) + 1
            /\ LET d == delivered'[Len(delivered')]
                   base == SubSeq(d.filename, 1, Len(d.filename) - Len(ImagesZip))
               IN /\ d.op = o
                  /\ N >= 1
                  /\ N = 1 =>
                       /\ d.kind = JPG
                       /\ SubSeq(d.filename, Len(d.filename) - 3, Len(d.filename)) = DotJpg
                       /\ d.payload = <<f.pages[1]>>
                  /\ N > 1 =>
                       /\ d.kind = Zip
                       /\ d.filename = base \o ImagesZip
                       /\ Len(d.payload) = N
                       /\ \A k \in 1..N :
                            /\ d.payload[k].page = k
                            /\ d.payload[k].folder = base
                            /\ d.payload[k].data = f.pages[k]]_vars

C3_Witness ==
  /\ last.act = Completed
  /\ Len(delivered) = 2
  /\ delivered[1].kind = JPG
  /\ delivered[2].kind = Zip /\ Len(delivered[2].payload) = 2

\* C4 as stated: zero pages from the rasterizer end in the 'no pages found'
\* error with Status = 'error' and no delivery.
C4_Original ==
  [][\A o \in DOMAIN ops :
       (/\ ops[o].kind = "toJpg" /\ ops[o].pc = "load" /\ Steps(o)
        /\ LoadPdf(ops[o].snap[1].file) /\ ops[o].snap[1].file.pages = <<>>) =>
         /\ Leaves(o)
         /\ error' = NoPagesError
         /\ status' = Error
         /\ delivered' = delivered]_vars

\* C4 (amended): when the rasterizer returns zero pages the operation ends
\* with the 'no pages found' message, Progress 0 and no delivery (neither a
\* .jpg nor an empty archive); Status is 'error' in App.tsx and is reset to
\* 'idle' by the finally block of part_001.
C4_NoPagesFails ==
  [][\A o \in DOMAIN ops :
       (/\ ops[o].kind = "toJpg" /\ ops[o].pc = "load" /\ Steps(o)
        /\ LoadPdf(ops[o].snap[1].file) /\ ops[o].snap[1].file.pages = <<>>) =>
         /\ Leaves(o)
         /\ error' = NoPagesError
         /\ status' = SettledStatus(Error)
         /\ progress' = 0
         /\ delivered' = delivered]_vars

C4_Witness ==
  /\ last.act = Error /\ error = NoPagesError
  /\ variant = "App" /\ status = Error
  /\ delivered = <<>> /\ ops = NoOps

C6_ReleasedExactlyOnce ==
  \A u \in 1..(nextId - 1) :
    IF \E i \in 1..Len(files) : files[i].previewUrl = u
    THEN revoked[u] = 0
    ELSE revoked[u] = 1

\* C7 as stated: Status becomes 'processing' only from 'idle', leaves
\* 'processing' only to 'completed' or 'error', and leaves 'completed' or
\* 'error' only to 'idle'.
C7_StatusMachine ==
  [][/\ (status' = Processing /\ status # Processing) => status = Idle
     /\ (status = Processing /\ status' # Processing) =>
          status' \in {Completed, Error}
     /\ (status \in {Completed, Error} /\ status' # status) =>
          status' = Idle]_vars

\* an awaited library call of the operation is bound to reject
Undecodable(op) ==
  IF op.kind = "merge" THEN ~AllDecode(op.snap) ELSE ~op.snap[1].file.good

FailureMessages == {MergeError, NoPagesError, NoContextError, LibraryError}

\* C8 as stated: a failed operation settles with Status = 'error', a
\* non-empty message, Progress 0, no delivery and the file set unchanged.
C8_Original ==
  [][\A o \in DOMAIN ops :
       Leaves(o) =>
         /\ Undecodable(ops[o]) => delivered' = delivered
         /\ delivered' = delivered =>
              /\ status' = Error
              /\ error' \in FailureMessages
              /\ progress' = 0
              /\ files' = files]_vars

\* C8 (amended): an operation with a file that does not decode delivers
\* nothing, and an operation that ends without a delivery (a library call
\* rejected, or no pages) ends with a non-empty error message, Progress 0
\* and the file set as it was; Status is then 'error' in App.tsx and is
\* reset to 'idle' by the finally block of part_001.
C8_FailureSettles ==
  [][\A o \in DOMAIN ops :
       Leaves(o) =>
         /\ Undecodable(ops[o]) => delivered' = delivered
         /\ delivered' = delivered =>
              /\ status' = SettledStatus(Error)
              /\ error' \in FailureMessages
              /\ progress' = 0
              /\ files' = files]_vars

C8_Witness ==
  /\ last.act = Error /\ error = MergeError
  /\ variant = "App" /\ status = Error /\ progress = 0
  /\ files # <<>> /\ ~AllDecode(files)
  /\ delivered = <<>>

\* the name without its extension: up to the last "."
LastDot(name) ==
  IF \E i \in 1..Len(name) : name[i] = "."
  THEN CHOOSE i \in 1..Len(name) :
         name[i] = "." /\ \A j \in (i + 1)..Len(name) : name[j] # "."
  ELSE 0

WithoutExtension(name) ==
  IF LastDot(name) = 0 THEN name ELSE SubSeq(name, 1, LastDot(name) - 1)

\* C9 as stated: the file PDF-to-Image delivers is named after the source
\* without its extension, plus ".jpg" (one page) or "_images.zip" (more).
C9_DeliveredName ==
  [][\A o \in DOMAIN ops :
       (ops[o].kind = "toJpg" /\ Leaves(o) /\ delivered' # delivered) =>
         LET src == ops[o].snap[1] IN
         delivered'[Len(delivered')].filename =
           WithoutExtension(src.name) \o
             (IF Len(src.file.pages) = 1 THEN DotJpg ELSE ImagesZip)]_vars

\* C10 as stated: through the UI at most one operation is in flight.
C10_OneInFlight == Cardinality(DOMAIN ops) <= 1

\* a step of an orchestration operation: its start, a continuation or its
\* settling
OperationStep == ops' # ops

\* C11 as stated: Status changes only as a step of one of the two
\* orchestration operations; file ingestion, removeFile, clearAll and the
\* banner's button leave it as it is.
C11_Original == [][status' # status => OperationStep]_vars

\* C11 (amended): Status changes only as a step of an orchestration
\* operation, or to 'idle' by clearAll or by the banner's "Start another
\* task" button; file ingestion and removeFile never change Status.
C11_StatusWriters ==
  [][/\ status' # status =>
          \/ OperationStep
          \/ status' = Idle /\ last'.act \in {"clearAll", "dismiss"}
     /\ last'.act \in {"handleFileChange", "removeFile"} =>
          status' = status]_vars

C11_Witness ==
  /\ last.act = "dismiss"
  /\ status = Idle /\ ops = NoOps
  /\ delivered # <<>> /\ files # <<>>

\* C12 as stated: Progress is non-zero only while Status = 'processing'
\* (it is 0 whenever Status is 'idle', 'completed' or 'error'), and it
\* always stays within 0..100.
C12_ProgressOnlyWhileProcessing ==
  /\ progress \in 0..100
  /\ status \in {Idle, Completed, Error} => progress = 0

\* an operation that has started settles in the end (its try ends or its
\* catch runs) and its finally sets Progress to 0
EveryOperationSettles ==
  \A o \in 1..MaxStarts :
    (o \in DOMAIN ops) ~>
      (/\ o \notin DOMAIN ops
       /\ last.op = o /\ last.act \in {Completed, Error}
       /\ progress = 0)

\* Status leaves 'processing' only in the step that settles an operation
LeavesProcessingBySettle ==
  [][(status = Processing /\ status' # Processing) =>
       \E o \in DOMAIN ops : Leaves(o)]_vars

\* C13 as stated: once started, an operation runs to completion or error
\* whatever the user does meanwhile: if every awaited library call resolves
\* or rejects in the end, Status leaves 'processing' through the operation's
\* own settle step and the finally (Progress := 0) is executed.
C13_RunsToSettle == EveryOperationSettles /\ LeavesProcessingBySettle

\* r is 100 * i / n rounded to the nearest integer, a half rounded up
IsRounded(r, i, n) == 200 * i - n < 2 * r * n /\ 2 * r * n <= 200 * i + n

\* the progress calls of operation o so far are those of pages 1, 2, ... in
\* order, one call per page rendered, each with the rounded percentage
ReportedInOrder(o) ==
  LET r == reports[o] IN
  /\ \A k \in 1..Len(r) :
       /\ r[k].page = k
       /\ r[k].of = r[1].of /\ k <= r[k].of
       /\ IsRounded(r[k].value, k, r[k].of)
  /\ \A k \in 2..Len(r) : r[k - 1].value <= r[k].value
  /\ (o \in DOMAIN ops /\ ops[o].kind = "toJpg") =>
       LET f == ops[o].snap[1].file
           res == ops[o].results
       IN /\ Len(res) = Len(r)
          /\ \A k \in 1..Len(r) : r[k].of = Len(f.pages)
          /\ \A k \in 1..Len(res) :
               res[k].page = k /\ res[k].dataUrl = f.pages[k]
          /\ ops[o].pc = "zip" =>
               /\ Len(f.pages) >= 1 /\ Len(res) = Len(f.pages)
               /\ r[Len(r)].value = 100
  /\ \A j \in 1..Len(delivered) :
       (delivered[j].op = o /\ delivered[j].kind \in {JPG, Zip}) =>
         /\ Len(r) >= 1 /\ Len(r) = r[1].of
         /\ r[Len(r)].value = 100
         /\ Len(delivered[j].payload) = Len(r)
         /\ delivered[j].kind = Zip =>
              \A k \in 1..Len(r) : delivered[j].payload[k].page = k

\* C14: for a PDF of n >= 1 pages the rasterizer renders pages 1..n in
\* ascending order, one at a time, and calls the progress callback exactly
\* once after each page i with round(100 * i / n); the values reported are
\* non-decreasing, the last one is 100, and the Page Results carry the page
\* numbers 1..n in order.
C14_PagesInOrder ==
  [][\A o \in 1..MaxStarts :
       /\ ReportedInOrder(o)'
       /\ Len(reports'[o]) \in {Len(reports[o]), Len(reports[o]) + 1}
       /\ SubSeq(reports'[o], 1, Len(reports[o])) = reports[o]]_vars

C14_Witness ==
  \E o \in DOMAIN ops :
    /\ ops[o].pc = "zip"
    /\ [k \in 1..Len(reports[o]) |-> reports[o][k].value] = <<33, 67, 100>>
    /\ [k \in 1..Len(ops[o].results) |-> ops[o].results[k].page] = <<1, 2, 3>>

\* the file set an operation captures when it is triggered: the whole store
\* for a merge, the first PDF-kind entry for a PDF-to-Image
CapturedFrom(kind, fs) == IF kind = "merge" THEN fs ELSE <<FirstPdf(fs)>>

\* the delivery that the captured file set snap determines
DeliveryOf(o, kind, snap) ==
  IF kind = "merge"
  THEN Download(o, PDF, MergedName, PdfPagesOf(snap) \o ImagePagesOf(snap))
  ELSE LET f == snap[1].file
           base == cleanName(snap[1].name)
       IN IF Len(f.pages) = 1
          THEN Download(o, JPG, base \o DotJpg, <<f.pages[1]>>)
          ELSE Download(o, Zip, base \o ImagesZip,
                        [k \in 1..Len(f.pages) |->
                           [folder |-> base, page |-> k, data |-> f.pages[k]]])

\* one step, seen from operation o: it captures the store when it starts,
\* keeps what it captured whatever happens to the store, and what it
\* delivers is determined by the captured files alone; settled is the
\* Status a delivering operation leaves
WorksOnCaptured(o, settled) ==
  /\ (o \notin DOMAIN ops /\ o \in DOMAIN ops') =>
       ops'[o].snap = CapturedFrom(ops'[o].kind, files)
  /\ (o \in DOMAIN ops /\ o \in DOMAIN ops') => ops'[o].snap = ops[o].snap
  /\ (Leaves(o) /\ delivered' # delivered) =>
       /\ Delivers(DeliveryOf(o, ops[o].kind, ops[o].snap))
       /\ status' = settled
  /\ (Steps(o) /\ ops[o].kind = "merge" /\ AllDecode(ops[o].snap)) =>
       Leaves(o) /\ delivered' # delivered

\* C15 as stated: an operation works on the file set captured when it was
\* triggered; ingesting, removing or clearing entries while it is in flight
\* changes neither the files processed nor the delivered payload and
\* filename, and the operation still delivers and sets Status to
\* 'completed' even if the store has become empty meanwhile.
C15_Original ==
  [][\A o \in 1..MaxStarts : WorksOnCaptured(o, Completed)]_vars

\* C15 (amended): the same, except that the Status a delivering operation
\* leaves is 'completed' in App.tsx and 'idle' in part_001, whose finally
\* resets it.
C15_WorksOnCaptured ==
  [][\A o \in 1..MaxStarts :
       WorksOnCaptured(o, SettledStatus(Completed))]_vars

C15_Witness ==
  /\ last.act = Completed
  /\ files = <<>>
  /\ variant = "App" /\ status = Completed
  /\ delivered # <<>>
  /\ delivered[Len(delivered)].op = last.op
  /\ delivered[Len(delivered)].payload # <<>>

\* C16: through the UI, PDF-to-Image is triggered only when the working set
\* holds a PDF-kind entry (the button is disabled or not rendered otherwise),
\* so the 'no PDF' validation branch of handlePdfToJpg is never taken.
C16_NoPdfBranchUnreachable ==
  /\ last.act # "handlePdfToJpg:noPdf"
  /\ error # NoPdfError
  /\ last.act = "toJpg:start" =>
       /\ hasPdf(files)
       /\ ops[last.op].snap = <<FirstPdf(files)>>

C16_Witness ==
  /\ last.act = "toJpg:start"
  /\ Len(files) = 2 /\ files[1].type # PDF /\ files[2].type = PDF
  /\ status = Processing

====
